---- MODULE Spec2Model ----
(***************************************************************************)
(* Model of mergekit's config.py: the setting evaluator evaluate_setting,   *)
(* the cascade ConfigReader.parameter, and MergeConfiguration.validate /    *)
(* referenced_models.                                                       *)
(*                                                                          *)
(* Python values are tagged records.  Numbers are exact rationals n/d in    *)
(* lowest terms (d > 0); the blending position t is the rational t/TDen.    *)
(* Strings that take part in the substring test ("filter in tensor_name")   *)
(* are sequences of characters.  A call's outcome is either                 *)
(* [kind |-> "return", val |-> v] or [kind |-> "raise", exc |-> e, ...].    *)
(***************************************************************************)
EXTENDS Integers, Sequences, FiniteSets

VARIABLES setting, tensor_name, t, config, slice_out, slices_in, call, result

vars == <<setting, tensor_name, t, config, slice_out, slices_in, call, result>>

\* ---------------------------------------------------------------- bounds
\* t ranges over 0/TDen, 1/TDen, ..., TDen/TDen
TDen == 4
\* longest list of plain scalars given to evaluate_setting
MaxLen == 3
\* longest list holding ConditionalParameter elements
MaxConds == 2
\* longest slices_in list of a resolution context
MaxSlicesIn == 2
\* longest slices list of a configuration, and longest models list
MaxSlices == 2
\* longest sources list of an output slice
MaxSources == 2

\* ---------------------------------------------------------------- values
None == [tag |-> "none"]

RECURSIVE Gcd(_, _)
Gcd(a, b) == IF b = 0 THEN a ELSE Gcd(b, a % b)

Abs(x) == IF x < 0 THEN -x ELSE x

\* the rational n/d (d > 0) in lowest terms
Num(n, d) ==
    LET g == Gcd(Abs(n), d)
    IN  [tag |-> "num", n |-> n \div g, d |-> d \div g]

Int_(n) == Num(n, 1)
Bool(b) == [tag |-> "bool", b |-> b]
Str(s) == [tag |-> "str", s |-> s]
List(items) == [tag |-> "list", items |-> items]

\* ConditionalParameter(value=..., filter=...); filter None is NoFilter
NoFilter == [tag |-> "none"]
Filter(chars) == [tag |-> "str", chars |-> chars]

ConditionalParameter(value, filter) ==
    [tag |-> "cond", filter |-> filter, value |-> value]

Return(v) == [kind |-> "return", val |-> v]
Raise(exc) == [kind |-> "raise", exc |-> exc]

\* ---------------------------------------------------------------- python primitives
\* isinstance(e, (int, float)): bool is a subclass of int
IsNumeric(e) == e.tag \in {"num", "bool"}

\* isinstance(e, (float, int, bool, str))
IsScalar(e) == e.tag \in {"num", "bool", "str"}

\* a numeric operand as a rational: True is 1, False is 0
AsNum(e) == IF e.tag = "bool" THEN Int_(IF e.b THEN 1 ELSE 0) ELSE e

\* int(n/d): truncation toward zero
Trunc(n, d) == IF n >= 0 THEN n \div d ELSE -((-n) \div d)

\* list[i] with Python's negative indices; FALSE when it raises IndexError
InRange(items, i) == i >= -Len(items) /\ i < Len(items)

Index(items, i) == IF i >= 0 THEN items[i + 1] ELSE items[Len(items) + i + 1]

\* f in s, for strings
IsSubstring(f, s) ==
    \E i \in 0..(Len(s) - Len(f)) : SubSeq(s, i + 1, i + Len(f)) = f

\* ---------------------------------------------------------------- evaluate_setting
\* scaled = t * (len(setting) - 1), as a numerator over TDen
Scaled(n, tt) == tt * (n - 1)

GradientI0(n, tt) == Trunc(Scaled(n, tt), TDen)

GradientI1_unclamped(n, i0) == i0 + 1

GradientI1(n, i0) == IF n - 1 < i0 + 1 THEN n - 1 ELSE i0 + 1

\* frac = scaled - i0, as a numerator over TDen
GradientFrac(n, tt, i0) == Scaled(n, tt) - i0 * TDen

\* (1 - frac) * a + frac * b
Lerp(a, b, fracNum) ==
    Num((TDen - fracNum) * a.n * b.d + fracNum * b.n * a.d, TDen * a.d * b.d)

Gradient(items, tt) ==
    LET n == Len(items)
        i0 == GradientI0(n, tt)
        i1 == GradientI1(n, i0)
    IN  IF InRange(items, i0) /\ InRange(items, i1)
        THEN Return(Lerp(AsNum(Index(items, i0)), AsNum(Index(items, i1)),
                         GradientFrac(n, tt, i0)))
        ELSE Raise("IndexError")

StepSequence(items, tt) ==
    LET i == Trunc(tt * (Len(items) - 1), TDen)
    IN  IF InRange(items, i) THEN Return(Index(items, i)) ELSE Raise("IndexError")

FilterMatches_noWildcard(cond, name) ==
    \/ cond.filter = NoFilter
    \/ cond.filter.tag = "str" /\ IsSubstring(cond.filter.chars, name)

FilterMatches(cond, name) ==
    \/ cond.filter = NoFilter
    \/ cond.filter = Filter(<<"*">>)
    \/ cond.filter.tag = "str" /\ IsSubstring(cond.filter.chars, name)

RECURSIVE evaluate_setting(_, _, _)
RECURSIVE ScanConditionals(_, _, _, _)

\* the for loop over setting, from position i on; falls out to "return None"
ScanConditionals(name, items, i, tt) ==
    IF i > Len(items) THEN Return(None)
    ELSE IF items[i].tag # "cond" THEN Raise("AttributeError")
    ELSE IF FilterMatches(items[i], name)
         THEN evaluate_setting(name, items[i].value, tt)
         ELSE ScanConditionals(name, items, i + 1, tt)

evaluate_setting(name, s, tt) ==
    IF IsScalar(s) THEN Return(s)
    ELSE IF s.tag = "list"
    THEN IF \A i \in 1..Len(s.items) : IsNumeric(s.items[i])
         THEN Gradient(s.items, tt)
         ELSE IF \A i \in 1..Len(s.items) : IsScalar(s.items[i])
         THEN StepSequence(s.items, tt)
         ELSE ScanConditionals(name, s.items, 1, tt)
    ELSE Return(None)

\* ---------------------------------------------------------------- inputs of the evaluator
TensorNames == {<<"a">>, <<"a", "b">>, <<"c">>}

Filters == {NoFilter, Filter(<<"*">>), Filter(<<"a">>), Filter(<<"b">>)}

Scalars == {Int_(-2), Int_(1), Int_(3), Bool(TRUE), Bool(FALSE), Str("x"), Str("y")}

SeqsUpTo(S, n) == UNION {[1..k -> S] : k \in 0..n}

ScalarLists == {List(q) : q \in SeqsUpTo(Scalars, MaxLen)}

CondValues ==
    {Int_(1), Int_(3), List(<<Int_(-2), Int_(3)>>),
     List(<<ConditionalParameter(Int_(3), Filter(<<"b">>))>>)}

Conds == {ConditionalParameter(v, f) : v \in CondValues, f \in Filters}

CondLists == {List(q) : q \in SeqsUpTo(Conds \cup {Int_(1), Str("x")}, MaxConds)}

EvalSettings == Scalars \cup ScalarLists \cup CondLists \cup Conds \cup {None}

Idle == [op |-> "idle"]
NoResult == [kind |-> "none"]

NoConfig == [tag |-> "none"]

InitEval ==
    /\ setting \in EvalSettings
    /\ tensor_name \in TensorNames
    /\ t \in 0..TDen
    /\ config = NoConfig
    /\ slice_out = None
    /\ slices_in = None
    /\ call = Idle
    /\ result = NoResult

EvaluateSetting ==
    /\ call' = [op |-> "evaluate_setting"]
    /\ result' = evaluate_setting(tensor_name, setting, t)
    /\ UNCHANGED <<setting, tensor_name, t, config, slice_out, slices_in>>

NextEval == EvaluateSetting

SpecEval == InitEval /\ [][NextEval]_vars

\* ---------------------------------------------------------------- schema
\* a Dict[str, ...]: a function whose domain is the set of keys
Dict(map) == [tag |-> "dict", map |-> map]

\* ModelReference: an opaque identity with a string form
ModelReference_parse(s) == [tag |-> "ref", path |-> s]

str_(model) == model.path

InputSliceDefinition(model, parameters) ==
    [tag |-> "slice_in", model |-> model, parameters |-> parameters]

InputModelDefinition(model) == [tag |-> "model_in", model |-> model]

OutputSliceDefinition(sources, parameters) ==
    [tag |-> "slice_out", sources |-> sources, parameters |-> parameters]

MergeConfiguration(slices, models, model_parameters, parameters) ==
    [tag |-> "config", slices |-> slices, models |-> models,
     model_parameters |-> model_parameters, parameters |-> parameters]

\* bool(x) for the optional containers and objects of the schema
Truthy(x) ==
    CASE x.tag = "none" -> FALSE
      [] x.tag = "list" -> Len(x.items) > 0
      [] x.tag = "dict" -> DOMAIN x.map # {}
      [] OTHER -> TRUE

\* d and key in d
Declares(d, key) == Truthy(d) /\ key \in DOMAIN d.map

\* ---------------------------------------------------------------- ConfigReader.parameter
\* positions of slices_in at which the loop of the first scope returns
SliceInHits(si, name, model) ==
    IF Truthy(model) /\ Truthy(si)
    THEN {i \in 1..Len(si.items) :
            /\ si.items[i].model = str_(model)
            /\ Declares(si.items[i].parameters, name)}
    ELSE {}

SliceOutDeclares(so, name) == Truthy(so) /\ Declares(so.parameters, name)

\* the guard of the per-model scope
ModelScopeEntered(cfg, model) ==
    /\ Truthy(cfg.model_parameters)
    /\ Truthy(model)
    /\ str_(model) \in DOMAIN cfg.model_parameters.map

MissingRequired(name, model, tn) ==
    [kind |-> "raise", exc |-> "RuntimeError",
     msg |-> [text |-> "Missing required parameter ", name |-> name,
              suffix |-> IF Truthy(model)
                         THEN [tag |-> "for", model |-> str_(model), tensor_name |-> tn]
                         ELSE None]]

parameter_sliceOutFirst(cfg, tn, tt, so, si, name, model, default, required) ==
    LET hits == SliceInHits(si, name, model)
        first == CHOOSE i \in hits : \A j \in hits : i <= j
    IN  IF SliceOutDeclares(so, name)
        THEN evaluate_setting(tn, so.parameters.map[name], tt)
        ELSE IF hits # {}
        THEN evaluate_setting(tn, si.items[first].parameters.map[name], tt)
        ELSE IF ModelScopeEntered(cfg, model)
        THEN Raise("AttributeError")
        ELSE IF Declares(cfg.parameters, name)
        THEN evaluate_setting(tn, cfg.parameters.map[name], tt)
        ELSE IF required THEN MissingRequired(name, model, tn)
        ELSE Return(default)

\* the per-model scope reads self.slice_in, a field ConfigReader does not
\* have (its fields are slice_out and slices_in): the attribute lookup raises
\* before the membership test is made
parameter(cfg, tn, tt, so, si, name, model, default, required) ==
    LET hits == SliceInHits(si, name, model)
        first == CHOOSE i \in hits : \A j \in hits : i <= j
    IN  IF hits # {}
        THEN evaluate_setting(tn, si.items[first].parameters.map[name], tt)
        ELSE IF SliceOutDeclares(so, name)
        THEN evaluate_setting(tn, so.parameters.map[name], tt)
        ELSE IF ModelScopeEntered(cfg, model)
        THEN Raise("AttributeError")
        ELSE IF Declares(cfg.parameters, name)
        THEN evaluate_setting(tn, cfg.parameters.map[name], tt)
        ELSE IF required THEN MissingRequired(name, model, tn)
        ELSE Return(default)

\* ---------------------------------------------------------------- inputs of the resolver
ModelNames == {"A", "B"}

ParamSettings ==
    {Int_(5), List(<<Int_(1), Int_(3)>>),
     List(<<ConditionalParameter(Int_(7), Filter(<<"b">>))>>)}

WeightDicts == {Dict([k \in {"weight"} |-> s]) : s \in ParamSettings}

OtherDict == Dict([k \in {"density"} |-> Int_(2)])

ParamDicts == {Dict(<<>>), OtherDict} \cup WeightDicts

OptParamDicts == {None} \cup ParamDicts

\* a slice's parameters: absent, declaring another name, or declaring "weight"
SliceParamDicts == {None, OtherDict} \cup WeightDicts

\* slices of model "A" take every such mapping, slices of the other model
\* declare "weight"
InputSlices ==
    {InputSliceDefinition("A", p) : p \in SliceParamDicts}
        \cup {InputSliceDefinition("B", Dict([k \in {"weight"} |-> Int_(5)]))}

SlicesIn == {None} \cup {List(q) : q \in SeqsUpTo(InputSlices, MaxSlicesIn)}

SlicesOut == {None} \cup {OutputSliceDefinition(<<>>, p) : p \in SliceParamDicts}

\* the entry of model "A" takes every parameter mapping, the entry of the
\* other model declares "weight"
OtherModelDicts == {Dict([k \in {"weight"} |-> Int_(5)])}

ModelParameters ==
    {None} \cup
    {Dict(m) : m \in UNION {{f \in [K -> ParamDicts] :
                                "B" \in K => f["B"] \in OtherModelDicts} :
                            K \in SUBSET ModelNames}}

\* the resolver reads neither slices nor models
ResolverConfigs ==
    {MergeConfiguration(None, None, mp, p) :
        mp \in ModelParameters, p \in OptParamDicts}

Default == Int_(9)

InitParam ==
    /\ config \in ResolverConfigs
    /\ tensor_name \in {<<"a">>, <<"a", "b">>}
    /\ t \in {1, TDen}
    /\ slice_out \in SlicesOut
    /\ slices_in \in SlicesIn
    /\ setting = None
    /\ call = Idle
    /\ result = NoResult

Parameter(name, model, required) ==
    /\ call = Idle
    /\ call' = [op |-> "parameter", name |-> name, model |-> model,
                default |-> Default, required |-> required]
    /\ result' = parameter(config, tensor_name, t, slice_out, slices_in,
                           name, model, Default, required)
    /\ UNCHANGED <<setting, tensor_name, t, config, slice_out, slices_in>>

NextParam ==
    \E model \in {None, ModelReference_parse("A")}, required \in BOOLEAN :
        Parameter("weight", model, required)

SpecParam == InitParam /\ [][NextParam]_vars

\* ---------------------------------------------------------------- MergeConfiguration
validate_neitherOnly(cfg) ==
    IF ~Truthy(cfg.slices) /\ ~Truthy(cfg.models)
    THEN [kind |-> "raise", exc |-> "RuntimeError",
          msg |-> "Must specify either output slices or models to merge"]
    ELSE Return(None)

validate(cfg) ==
    IF \/ ~Truthy(cfg.slices) /\ ~Truthy(cfg.models)
       \/ Truthy(cfg.slices) /\ Truthy(cfg.models)
    THEN [kind |-> "raise", exc |-> "RuntimeError",
          msg |-> "Must specify either output slices or models to merge"]
    ELSE Return(None)

\* list(models) of a set has no duplicates and no specified order: the
\* result is kept as the set.  Iterating self.slices when it is None raises.
referenced_models(cfg) ==
    LET keyed == IF Truthy(cfg.model_parameters)
                 THEN {ModelReference_parse(k) : k \in DOMAIN cfg.model_parameters.map}
                 ELSE {}
    IN  IF cfg.slices = None THEN Raise("TypeError")
        ELSE Return([tag |-> "models",
                     elems |-> keyed \cup
                        UNION {{ModelReference_parse(cfg.slices.items[i].sources[j].model) :
                                   j \in 1..Len(cfg.slices.items[i].sources)} :
                               i \in 1..Len(cfg.slices.items)}])

\* ---------------------------------------------------------------- inputs of the configuration
SourceLists ==
    SeqsUpTo({InputSliceDefinition(m, None) : m \in ModelNames}, MaxSources)

ConfigSlices ==
    {None} \cup
    {List(q) : q \in SeqsUpTo({OutputSliceDefinition(src, None) : src \in SourceLists},
                              MaxSlices)}

ConfigModels ==
    {None} \cup
    {List(q) : q \in SeqsUpTo({InputModelDefinition(m) : m \in ModelNames}, MaxSlices)}

ConfigModelParameters ==
    {None} \cup {Dict([k \in K |-> Dict(<<>>)]) : K \in SUBSET ModelNames}

InitConfig ==
    /\ config \in {MergeConfiguration(sl, md, mp, None) :
                      sl \in ConfigSlices, md \in ConfigModels,
                      mp \in ConfigModelParameters}
    /\ tensor_name = <<>>
    /\ t = 0
    /\ slice_out = None
    /\ slices_in = None
    /\ setting = None
    /\ call = Idle
    /\ result = NoResult

Validate ==
    /\ call' = [op |-> "validate"]
    /\ result' = validate(config)
    /\ UNCHANGED <<setting, tensor_name, t, config, slice_out, slices_in>>

ReferencedModels ==
    /\ call' = [op |-> "referenced_models"]
    /\ result' = referenced_models(config)
    /\ UNCHANGED <<setting, tensor_name, t, config, slice_out, slices_in>>

NextConfig == Validate \/ ReferencedModels

SpecConfig == InitConfig /\ [][NextConfig]_vars

\* ---------------------------------------------------------------- properties of the evaluator
Called(op) == call.op = op

\* a <= b for rationals
Leq(a, b) == a.n * b.d <= b.n * a.d

\* Python's ==, under which True == 1 and False == 0
PyEq(a, b) ==
    IF IsNumeric(a) /\ IsNumeric(b) THEN AsNum(a) = AsNum(b) ELSE a = b

IsGradientInput ==
    /\ setting.tag = "list"
    /\ Len(setting.items) >= 2
    /\ \A i \in 1..Len(setting.items) : setting.items[i].tag \in {"num", "bool"}

\* C4: for an all-numeric sequence of n >= 2 control points and t in [0,1],
\* evaluate_setting reads only positions i0 = floor(t*(n-1)) and
\* i1 = min(n-1, i0+1), both inside [0, n-1], and returns
\* (1-frac)*value[i0] + frac*value[i1] with frac = t*(n-1) - i0; t = 0 gives
\* value[0], t = 1 gives value[n-1], and the result lies between the two
\* adjacent control points.
C4_GradientInterpolation ==
    (Called("evaluate_setting") /\ IsGradientInput) =>
        LET n == Len(setting.items)
            i0 == (t * (n - 1)) \div TDen
            i1 == IF i0 + 1 > n - 1 THEN n - 1 ELSE i0 + 1
            fr == t * (n - 1) - i0 * TDen
            v0 == AsNum(setting.items[i0 + 1])
            v1 == AsNum(setting.items[i1 + 1])
            lo == IF Leq(v0, v1) THEN v0 ELSE v1
            hi == IF Leq(v0, v1) THEN v1 ELSE v0
        IN  /\ 0 <= i0 /\ i0 <= n - 1 /\ 0 <= i1 /\ i1 <= n - 1
            /\ result.kind = "return"
            /\ result.val.tag = "num"
            /\ result.val.n * (TDen * v0.d * v1.d)
                 = ((TDen - fr) * v0.n * v1.d + fr * v1.n * v0.d) * result.val.d
            /\ (t = 0 => result.val = AsNum(setting.items[1]))
            /\ (t = TDen => result.val = AsNum(setting.items[n]))
            /\ Leq(lo, result.val) /\ Leq(result.val, hi)

\* a two-point gradient sampled strictly between its control points
C4_Witness ==
    /\ Called("evaluate_setting")
    /\ setting = List(<<Int_(-2), Int_(3)>>)
    /\ 0 < t /\ t < TDen
    /\ result.kind = "return"
    /\ result.val # Int_(-2) /\ result.val # Int_(3)

IsConditionalList ==
    /\ setting.tag = "list"
    /\ Len(setting.items) >= 1
    /\ \A i \in 1..Len(setting.items) : setting.items[i].tag = "cond"

\* the filter is None, "*", or a substring of the tensor name
Selects(cond, name) ==
    \/ cond.filter = NoFilter
    \/ cond.filter = Filter(<<"*">>)
    \/ /\ cond.filter.tag = "str"
       /\ \E i \in 0..(Len(name) - Len(cond.filter.chars)) :
              SubSeq(name, i + 1, i + Len(cond.filter.chars)) = cond.filter.chars

Selected == {i \in 1..Len(setting.items) : Selects(setting.items[i], tensor_name)}

FirstSelected == CHOOSE i \in Selected : \A j \in Selected : i <= j

\* C5: for a list of ConditionalParameter, evaluate_setting returns the
\* evaluation (same tensor name, same t) of the value of the first element
\* whose filter is None, "*" or a substring of the tensor name; later
\* elements, matching or not, do not influence the result.
C5_FirstMatchWins ==
    (Called("evaluate_setting") /\ IsConditionalList /\ Selected # {}) =>
        result = evaluate_setting(tensor_name,
                                  setting.items[FirstSelected].value, t)

\* two elements match, with different values, and the first one is not the
\* head of the list or the later one would give another result
C5_Witness ==
    /\ Called("evaluate_setting") /\ IsConditionalList
    /\ Cardinality(Selected) >= 2
    /\ \E j \in Selected :
          evaluate_setting(tensor_name, setting.items[j].value, t) # result
    /\ result.kind = "return"

IsStepInput ==
    /\ setting.tag = "list"
    /\ Len(setting.items) >= 1
    /\ \A i \in 1..Len(setting.items) : setting.items[i].tag \in {"str", "bool"}

\* C6: for a sequence of n >= 1 strings or booleans and t in [0,1],
\* evaluate_setting returns exactly the listed element
\* value[floor(t*(n-1))], never an arithmetic blend of two elements.
C6_StepNeverInterpolates ==
    (Called("evaluate_setting") /\ IsStepInput) =>
        /\ result.kind = "return"
        /\ PyEq(result.val,
                setting.items[((t * (Len(setting.items) - 1)) \div TDen) + 1])

IsAmbiguousInput ==
    /\ setting.tag = "list"
    /\ \/ Len(setting.items) = 0
       \/ IsConditionalList /\ Selected = {}
       \/ /\ \E i \in 1..Len(setting.items) : setting.items[i].tag = "num"
          /\ \E i \in 1..Len(setting.items) : setting.items[i].tag = "cond"

\* C9: for an empty list, a conditional list in which no filter matches, or
\* a sequence mixing numbers with ConditionalParameter elements,
\* evaluate_setting returns None and does not raise.
C9_AmbiguousYieldsNone ==
    (Called("evaluate_setting") /\ IsAmbiguousInput) => result = Return(None)

\* ---------------------------------------------------------------- properties of the resolver
ModelSupplied == call.model # None

\* input slices of the supplied model whose parameters contain the name
DeclaringSlices ==
    IF ModelSupplied /\ slices_in # None
    THEN {i \in 1..Len(slices_in.items) :
            /\ slices_in.items[i].model = call.model.path
            /\ slices_in.items[i].parameters # None
            /\ call.name \in DOMAIN slices_in.items[i].parameters.map}
    ELSE {}

FirstDeclaringSlice == CHOOSE i \in DeclaringSlices : \A j \in DeclaringSlices : i <= j

InSliceDeclared == DeclaringSlices # {}

OutSliceDeclared ==
    /\ slice_out # None
    /\ slice_out.parameters # None
    /\ call.name \in DOMAIN slice_out.parameters.map

ModelGlobalDeclared ==
    /\ ModelSupplied
    /\ config.model_parameters # None
    /\ call.model.path \in DOMAIN config.model_parameters.map
    /\ call.name \in DOMAIN config.model_parameters.map[call.model.path].map

GlobalDeclared ==
    /\ config.parameters # None
    /\ call.name \in DOMAIN config.parameters.map

InSliceSetting == slices_in.items[FirstDeclaringSlice].parameters.map[call.name]
OutSliceSetting == slice_out.parameters.map[call.name]
ModelGlobalSetting == config.model_parameters.map[call.model.path].map[call.name]
GlobalSetting == config.parameters.map[call.name]

\* C1: with a model supplied, neither the per-source-in-slice scope nor the
\* output-slice scope declaring the name, and model_parameters[str(model)]
\* containing the name, parameter returns the evaluation of
\* model_parameters[str(model)][name] without raising, whether or not the
\* global parameters declare the name too.
C1_PerModelGlobalScope ==
    (Called("parameter") /\ ~InSliceDeclared /\ ~OutSliceDeclared
                         /\ ModelGlobalDeclared) =>
        /\ result.kind = "return"
        /\ result = evaluate_setting(tensor_name, ModelGlobalSetting, t)

\* C2: when none of the four scopes declares the name, parameter with
\* required=True fails with the "Missing required parameter" error naming
\* the parameter (and model and tensor name when a model was supplied), and
\* with required=False returns the default unchanged; nothing else happens.
C2_Fallback ==
    (Called("parameter") /\ ~InSliceDeclared /\ ~OutSliceDeclared
                         /\ ~ModelGlobalDeclared /\ ~GlobalDeclared) =>
        IF call.required
        THEN /\ result.kind = "raise"
             /\ result.exc = "RuntimeError"
             /\ result.msg.text = "Missing required parameter "
             /\ result.msg.name = call.name
             /\ result.msg.suffix =
                  (IF ModelSupplied
                   THEN [tag |-> "for", model |-> call.model.path,
                         tensor_name |-> tensor_name]
                   ELSE None)
        ELSE result = Return(call.default)

\* C3: when a model is supplied and slices_in holds an input slice of that
\* model whose parameters contain the name, the result is the evaluation of
\* that slice's setting (the first such slice in list order), whatever
\* slice_out, model_parameters and the global parameters declare; otherwise,
\* when slice_out's parameters contain the name, the result is the
\* evaluation of the output-slice setting, whatever model_parameters and the
\* global parameters declare.
C3_CascadePrecedence ==
    Called("parameter") =>
        /\ InSliceDeclared =>
             result = evaluate_setting(tensor_name, InSliceSetting, t)
        /\ (~InSliceDeclared /\ OutSliceDeclared) =>
             result = evaluate_setting(tensor_name, OutSliceSetting, t)

\* all four scopes declare the name, each with another value than the input
\* slice, and the input slice's value is returned
C3_Witness ==
    /\ Called("parameter")
    /\ InSliceDeclared /\ OutSliceDeclared /\ ModelGlobalDeclared /\ GlobalDeclared
    /\ InSliceSetting = Int_(5)
    /\ OutSliceSetting # Int_(5) /\ ModelGlobalSetting # Int_(5)
    /\ GlobalSetting # Int_(5)
    /\ evaluate_setting(tensor_name, OutSliceSetting, t) # Return(Int_(5))
    /\ result = Return(Int_(5))

NoScopeDeclares ==
    ~InSliceDeclared /\ ~OutSliceDeclared /\ ~ModelGlobalDeclared /\ ~GlobalDeclared

NarrowestSetting ==
    IF InSliceDeclared THEN InSliceSetting
    ELSE IF OutSliceDeclared THEN OutSliceSetting
    ELSE IF ModelGlobalDeclared THEN ModelGlobalSetting
    ELSE GlobalSetting

\* a conditional list none of whose filters matches the tensor name
NoFilterMatches(s, name) ==
    /\ s.tag = "list"
    /\ Len(s.items) >= 1
    /\ \A i \in 1..Len(s.items) :
          s.items[i].tag = "cond" /\ ~Selects(s.items[i], name)

\* C10: when the narrowest scope that declares the name holds a conditional
\* list none of whose filters matches the tensor name, parameter returns
\* None at once: no broader scope is consulted, the default is not
\* returned, and the missing-required error is not raised even with
\* required=True.
C10_DeclaredNullShortCircuits ==
    (Called("parameter") /\ ~NoScopeDeclares
                         /\ NoFilterMatches(NarrowestSetting, tensor_name)) =>
        result = Return(None)

\* ---------------------------------------------------------------- properties of the configuration
NonEmpty(x) == x # None /\ Len(x.items) > 0

\* C7: validate raises exactly when slices and models are both non-empty or
\* both empty or absent, and returns normally when exactly one of them is
\* non-empty.
C7_ValidateXor ==
    Called("validate") =>
        /\ result.kind = "raise" <=>
             (NonEmpty(config.slices) <=> NonEmpty(config.models))
        /\ (NonEmpty(config.slices) # NonEmpty(config.models)) =>
             result = Return(None)

\* both slices and models are given and the configuration is rejected
C7_Witness ==
    /\ Called("validate")
    /\ NonEmpty(config.slices) /\ NonEmpty(config.models)
    /\ result.kind = "raise"

\* the model identities named by the sources of the slices and by models
NamedModels ==
    (IF NonEmpty(config.slices)
     THEN UNION {{config.slices.items[i].sources[j].model :
                     j \in 1..Len(config.slices.items[i].sources)} :
                 i \in 1..Len(config.slices.items)}
     ELSE {})
    \cup
    (IF NonEmpty(config.models)
     THEN {config.models.items[i].model : i \in 1..Len(config.models.items)}
     ELSE {})

\* C8: for every configuration validate accepts, slices-only or
\* models-only, referenced_models returns without raising the
\* duplicate-free collection of the model identities the configuration
\* references.
C8_ReferencedModels ==
    (Called("referenced_models")
        /\ NonEmpty(config.slices) # NonEmpty(config.models)) =>
        /\ result.kind = "return"
        /\ \A m \in NamedModels : \E r \in result.val.elems : r.path = m

====
